---- MODULE Spec2Model ----
(***************************************************************************)
(* A model of hearthbreaker/replay.py: the Replay container (recording     *)
(* hooks, the deck shortener, the compact writer and reader), record()     *)
(* and playback().  The rules engine (Game, Player, the agents) is the     *)
(* environment: it decides when the hooks are called and with what.        *)
(***************************************************************************)
EXTENDS Integers, Sequences, FiniteSets, TLC

\* ------------------------------------------------------------------ bounds
MaxMoves == 3      \* moves appended during one recording
MaxDraws == 2      \* bounded-random draws made after the coin flip
MaxVal == 1        \* draws are taken from 0..MaxVal
HandSize == 1      \* cards in player one's opening hand (player two has one more)
MaxLines == 3      \* directives in a hand-written compact source
MaxCalls == 7      \* engine calls during the playback of a hand-written source
MaxPattern == 3    \* length of the repeated pattern of an input deck
MaxChoices == 2    \* calls answered by a recording agent during one recording

\* ------------------------------------------------------- program constants
DeckSize == 30
PatternLimit == 15

\* ----------------------------------------------------------------- helpers
\* Python's zero-based indexing of a list.
At(seq, i) == seq[i + 1]

InRange(seq, i) == i >= 0 /\ i < Len(seq)

Last(seq) == seq[Len(seq)]

Min(S) == CHOOSE x \in S : \A y \in S : x <= y

\* ------------------------------------------------------------ card database
\* A card is its class; every card class has one name.
CardNames == <<"Fireball", "Wisp">>

Cards == 1..Len(CardNames)

CardName(card) == CardNames[card]

NoCard == 0

card_lookup(name) ==
    IF \E c \in Cards : CardNames[c] = name
    THEN CHOOSE c \in Cards : CardNames[c] = name
    ELSE NoCard

ClassNames == <<"MAGE", "HUNTER">>

to_str(character_class) == ClassNames[character_class]

from_str(name) == CHOOSE c \in 1..Len(ClassNames) : ClassNames[c] = name

\* isinstance(a, type(b)) on two cards: no card class derives from another.
IsInstance(a, b) == a = b

\* ------------------------------------------------------------------- decks
\* The deck that repeats `pattern` until DeckSize cards are found.
Tile(pattern) == [i \in 1..DeckSize |-> pattern[((i - 1) % Len(pattern)) + 1]]

\* The deck whose smallest period is exactly `period`.
Marker(period) == [i \in 1..DeckSize |-> IF (i - 1) % period = 0 THEN 1 ELSE 2]

Deck(cards, character_class) == [cards |-> cards, character_class |-> character_class]

\* Replay.__shorten_deck: the loop falls off its end when nothing matched.
PatternMatches(cards, pattern_length) ==
    \A index \in pattern_length..(DeckSize - 1) :
        IsInstance(At(cards, index % pattern_length), At(cards, index))

MatchingLengths(cards) ==
    {pattern_length \in 1..(PatternLimit - 1) : PatternMatches(cards, pattern_length)}

shorten_deck(cards) ==
    IF MatchingLengths(cards) # {}
    THEN [none |-> FALSE, cards |-> SubSeq(cards, 1, Min(MatchingLengths(cards)))]
    ELSE [none |-> TRUE, cards |-> <<>>]

\* The expansion done by read and read_json: args[1 + index % deck_size].
Expand(names) ==
    [i \in 1..DeckSize |-> card_lookup(At(names, (i - 1) % Len(names)))]

\* ------------------------------------------------------------------- state
VARIABLES
    replay,        \* the Replay that record() returned: decks, keeps, random, moves
    rpc,           \* where the recorded game is in its run
    log,           \* the calls the recorded game made on the hooks, in order
    hero_dead,     \* player.hero.dead of the acting player of the running game
    file,          \* the lines write() emitted
    iopc,          \* progress of write() and read()
    loaded,        \* the fresh Replay that read() fills
    pb,            \* which Replay playback() was given: "rec" or "load"
    ppc,           \* where the played-back game is in its run
    move_index,    \* playback's move cursor
    random_index,  \* playback's draw cursor
    k_index,       \* playback's keep cursor
    pos,           \* engine calls made so far by the played-back game
    got,           \* what each bounded-random call of the played-back game returned
    turn_from,     \* the move cursor when do_turn was last called
    played,        \* the indices of the moves that call of do_turn has played
    call           \* the last call a wrapper of record() or playback() answered

vars == <<replay, rpc, log, hero_dead, file, iopc, loaded,
          pb, ppc, move_index, random_index, k_index, pos, got, turn_from, played, call>>

recVars == <<replay, rpc, log>>

ioVars == <<file, iopc, loaded>>

pbVars == <<pb, ppc, move_index, random_index, k_index, pos, got, turn_from, played>>

turnVars == <<turn_from, played>>

None == "<None>"

\* Replay.__init__
NewReplay ==
    [decks |-> <<>>, keeps |-> <<>>, random |-> <<>>, moves |-> <<>>, next_target |-> None]

\* The Move classes of hearthbreaker.serialization.move, one record shape for all.
Move(kind, card, attacker, index, target) ==
    [kind |-> kind, card |-> card, attacker |-> attacker, index |-> index,
     target |-> target, random_numbers |-> <<>>]

TurnStartMove == Move("start", None, None, -1, None)

TurnEndMove == Move("end", None, None, -1, None)

ConcedeMove == Move("concede", None, None, -1, None)

PlayMove(card, index, target) == Move("play", card, None, index, target)

AttackMove(attacker, target) == Move("attack", None, attacker, -1, target)

PowerMove(target) == Move("power", None, None, -1, target)

\* A draw attached to a move: a plain integer or a ProxyCharacter.
Num(n) == [proxy |-> FALSE, val |-> n, ref |-> ""]

ProxyCharacter(ref) == [proxy |-> TRUE, val |-> 0, ref |-> ref]

Event(op, val) == [op |-> op, val |-> val, at |-> Len(replay.moves) - 1]

IsDraw(e) == e.op = "draw"

\* The events that append a PlayMove, an AttackMove or a PowerMove.
ActionKinds == {"play", "attack", "power"}

Draws(l) == SelectSeq(l, IsDraw)

Recording == iopc = "none" /\ ppc = "none"

\* A method of Replay returned, or raised and left the Replay as `r`.
Ok(r) == [err |-> FALSE, replay |-> r]

Err(r) == [err |-> TRUE, replay |-> r]

\* A call answered by a RecordingAgent, a ReplayAgent or a wrapper of the game:
\* the arguments it was made with, the arguments the wrapped callable was given,
\* what that answered, and what the caller got.
Call(fn, args, forwarded, answer, returned, raised) ==
    [fn |-> fn, args |-> args, forwarded |-> forwarded, answer |-> answer,
     returned |-> returned, raised |-> raised]

NoCall == Call("none", <<>>, <<>>, None, None, FALSE)

\* ------------------------------------------------------------- recording
\* Replay._save_decks
save_decks(r, deck1, deck2) == [r EXCEPT !.decks = <<deck1, deck2>>]

\* _record_random with self._moves[0] for self._moves[-1].
record_random_first(r, result) ==
    IF Len(r.moves) > 0
    THEN [r EXCEPT !.moves[1].random_numbers = Append(@, Num(result))]
    ELSE [r EXCEPT !.random = Append(@, result)]

\* Replay._record_random
record_random(r, result) ==
    IF Len(r.moves) > 0
    THEN [r EXCEPT !.moves[Len(r.moves)].random_numbers = Append(@, Num(result))]
    ELSE [r EXCEPT !.random = Append(@, result)]

\* Replay._record_kept_index
record_kept_index(r, card_index) ==
    LET kept == {index \in 0..(Len(card_index) - 1) : At(card_index, index)}
        k_arr == [n \in 1..Cardinality(kept) |->
                     CHOOSE index \in kept :
                         Cardinality({j \in kept : j < index}) = n - 1]
    IN [r EXCEPT !.keeps = Append(@, k_arr)]

AppendMove(r, move) == [r EXCEPT !.moves = Append(@, move)]

\* Replay._record_card_played: ProxyCard(index) holds the index as text.
record_card_played(r, card, index) ==
    [AppendMove(r, PlayMove(ToString(index), -1, r.next_target))
        EXCEPT !.next_target = None]

\* Replay._record_attack
record_attack(r, attacker, target) ==
    [AppendMove(r, AttackMove(attacker, target)) EXCEPT !.next_target = None]

\* Replay._record_power
record_power(r) ==
    [AppendMove(r, PowerMove(r.next_target)) EXCEPT !.next_target = None]

\* _record_target that keeps a target staged earlier.
record_target_keep(r, target) ==
    IF r.next_target = None THEN [r EXCEPT !.next_target = target] ELSE r

\* Replay._record_target
record_target(r, target) == [r EXCEPT !.next_target = target]

\* _record_index that sets the index of the first move.
record_index_first(r, index) ==
    IF Len(r.moves) > 0
    THEN Ok([r EXCEPT !.moves[1].index = index])
    ELSE Err(r)

\* Replay._record_index: self._moves[-1] raises IndexError on an empty list.
record_index(r, index) ==
    IF Len(r.moves) > 0
    THEN Ok([r EXCEPT !.moves[Len(r.moves)].index = index])
    ELSE Err(r)

\* Replay._record_option_chosen: it reads self.moves, and a Replay has only
\* the attribute _moves, so that AttributeError is raised.
record_option_chosen(r, option) == Err(r)

\* The place in game.players of the player the coin flip lets go first.
FirstActing(first_player) == first_player + 1

\* record(game) that saves the decks in the order of game.players.
record_unordered(first_player, deck0, deck1) ==
    /\ rpc = "unrecorded"
    /\ replay' = save_decks([NewReplay EXCEPT !.random = <<first_player>>], deck0, deck1)
    /\ log' = <<[op |-> "draw", val |-> first_player, at |-> -1]>>
    /\ rpc' = "new"
    /\ UNCHANGED <<hero_dead, ioVars, call, pbVars>>

\* record(game): game.first_player was drawn when the game was constructed.
record(first_player, deck0, deck1) ==
    /\ rpc = "unrecorded"
    /\ replay' = (IF first_player = 0
                  THEN save_decks([NewReplay EXCEPT !.random = <<first_player>>], deck0, deck1)
                  ELSE save_decks([NewReplay EXCEPT !.random = <<first_player>>], deck1, deck0))
    /\ log' = <<[op |-> "draw", val |-> first_player, at |-> -1]>>
    /\ rpc' = "new"
    /\ UNCHANGED <<hero_dead, ioVars, call, pbVars>>

\* Game.start calls pre_game (not wrapped by record).
RecPreGame ==
    /\ Recording /\ rpc = "new"
    /\ rpc' = "pregame"
    /\ log' = Append(log, Event("pre", 0))
    /\ UNCHANGED <<replay, hero_dead, ioVars, call, pbVars>>

\* pre_game returns once both players have made their mulligan.
RecPreGameReturn ==
    /\ Recording /\ rpc = "pregame"
    /\ Len(replay.keeps) = 2
    /\ rpc' = "idle"
    /\ log' = Append(log, Event("ret", 0))
    /\ UNCHANGED <<replay, hero_dead, ioVars, call, pbVars>>

\* record._generate_random_between: the engine draws while it resolves
\* the pre-game, a turn boundary or a move.
RecGenerateRandomBetween(result) ==
    /\ Recording /\ rpc \in {"pregame", "start", "move", "end"}
    /\ Len(Draws(log)) < MaxDraws + 1
    /\ replay' = record_random(replay, result)
    /\ log' = Append(log, Event("draw", result))
    /\ UNCHANGED <<rpc, hero_dead, ioVars, call, pbVars>>

\* The "kept_cards" event of the mulligan, once for each player.
RecKeptCards(card_index) ==
    /\ Recording /\ rpc = "pregame"
    /\ Len(replay.keeps) < 2
    /\ Len(card_index) = HandSize + Len(replay.keeps)
    /\ replay' = record_kept_index(replay, card_index)
    /\ log' = Append(log, Event("keep", Len(card_index)))
    /\ UNCHANGED <<rpc, hero_dead, ioVars, call, pbVars>>

\* _start_turn with a TurnEndMove for the TurnStartMove.
RecStartTurnWrongMove ==
    /\ Recording /\ rpc = "idle"
    /\ Len(replay.moves) < MaxMoves
    /\ replay' = AppendMove(replay, TurnEndMove)
    /\ log' = Append(log, Event("start", 0))
    /\ rpc' = "start"
    /\ UNCHANGED <<hero_dead, ioVars, call, pbVars>>

\* record._start_turn
RecStartTurn ==
    /\ Recording /\ rpc = "idle"
    /\ Len(replay.moves) < MaxMoves
    /\ replay' = AppendMove(replay, TurnStartMove)
    /\ log' = Append(log, Event("start", 0))
    /\ rpc' = "start"
    /\ UNCHANGED <<hero_dead, ioVars, call, pbVars>>

\* _old_start_turn returns; the engine hands the turn to the agent.
RecStartTurnReturn ==
    /\ Recording /\ rpc = "start"
    /\ log' = Append(log, Event("ret", 0))
    /\ rpc' = "turn"
    /\ UNCHANGED <<replay, hero_dead, ioVars, call, pbVars>>

\* Replay._record_card_played, on the "card_played" event
RecCardPlayed(index) ==
    /\ Recording /\ rpc = "turn" /\ ~hero_dead
    /\ Len(replay.moves) < MaxMoves
    /\ replay' = record_card_played(replay, ToString(index), index)
    /\ log' = Append(log, Event("play", 0))
    /\ rpc' = "move"
    /\ UNCHANGED <<hero_dead, ioVars, call, pbVars>>

\* Replay._record_attack, on the "attack" event
RecAttack(attacker, target) ==
    /\ Recording /\ rpc = "turn" /\ ~hero_dead
    /\ Len(replay.moves) < MaxMoves
    /\ replay' = record_attack(replay, attacker, target)
    /\ log' = Append(log, Event("attack", 0))
    /\ rpc' = "move"
    /\ UNCHANGED <<hero_dead, ioVars, call, pbVars>>

\* Replay._record_power, on the "used_power" event
RecPower ==
    /\ Recording /\ rpc = "turn" /\ ~hero_dead
    /\ Len(replay.moves) < MaxMoves
    /\ replay' = record_power(replay)
    /\ log' = Append(log, Event("power", 0))
    /\ rpc' = "move"
    /\ UNCHANGED <<hero_dead, ioVars, call, pbVars>>

\* The calls a recording agent has answered and the targets the heroes found.
IsChoice(e) == e.op \in {"target", "index", "option", "found"}

Choices(l) == SelectSeq(l, IsChoice)

\* RecordingAgent.choose_target: the engine asks for the target of the card or
\* power about to be used, or of an effect of the move being resolved.
RecChooseTarget(targets, target) ==
    /\ Recording /\ rpc \in {"turn", "move"} /\ ~hero_dead
    /\ Len(Choices(log)) < MaxChoices
    /\ replay' = record_target(replay, target)
    /\ call' = Call("choose_target", <<targets>>, <<targets>>, target, target, FALSE)
    /\ log' = Append(log, Event("target", target))
    /\ UNCHANGED <<rpc, hero_dead, ioVars, pbVars>>

\* The "found_power_target" event of a hero, bound to Replay._record_target.
RecFoundPowerTarget(target) ==
    /\ Recording /\ rpc = "turn" /\ ~hero_dead
    /\ Len(Choices(log)) < MaxChoices
    /\ replay' = record_target(replay, target)
    /\ log' = Append(log, Event("found", target))
    /\ UNCHANGED <<rpc, hero_dead, ioVars, pbVars, call>>

\* RecordingAgent.choose_index: asked while the played minion is put on the board.
RecChooseIndex(card, player, index) ==
    /\ Recording /\ rpc = "move"
    /\ Len(Choices(log)) < MaxChoices
    /\ LET res == record_index(replay, index)
       IN /\ replay' = res.replay
          /\ call' = Call("choose_index", <<card, player>>, <<card, player>>, index,
                          IF res.err THEN None ELSE index, res.err)
          /\ rpc' = (IF res.err THEN "error" ELSE rpc)
    /\ log' = Append(log, Event("index", index))
    /\ UNCHANGED <<hero_dead, ioVars, pbVars>>

\* RecordingAgent.choose_option(*options): the wrapped agent is handed the tuple
\* `options` as its one argument.  It answers with what it was handed or, if
\* `unpacked`, with the i-th of the options; options.index raises ValueError on
\* the first, _record_option_chosen raises on the second.
RecChooseOption(options, unpacked, i) ==
    /\ Recording /\ rpc = "move"
    /\ Len(Choices(log)) < MaxChoices
    /\ LET res == IF unpacked THEN record_option_chosen(replay, i) ELSE Err(replay)
       IN /\ replay' = res.replay
          /\ call' = Call("choose_option", options, <<options>>,
                          IF unpacked THEN At(options, i) ELSE options, None, res.err)
          /\ rpc' = (IF res.err THEN "error" ELSE rpc)
    /\ log' = Append(log, Event("option", i))
    /\ UNCHANGED <<hero_dead, ioVars, pbVars>>

\* The acting hero dies while a move resolves: the game has ended.
RecHeroDies ==
    /\ Recording /\ rpc = "move" /\ ~hero_dead
    /\ hero_dead' = TRUE
    /\ log' = Append(log, Event("die", 0))
    /\ UNCHANGED <<replay, rpc, ioVars, call, pbVars>>

\* The move has been resolved; control is back in the agent's do_turn.
RecMoveReturn ==
    /\ Recording /\ rpc = "move"
    /\ log' = Append(log, Event("ret", 0))
    /\ rpc' = "turn"
    /\ UNCHANGED <<replay, hero_dead, ioVars, call, pbVars>>

\* _end_turn that delegates to _old_end_turn without having appended the move.
RecEndTurnLate ==
    /\ Recording /\ rpc = "turn"
    /\ Len(replay.moves) < MaxMoves
    /\ log' = Append(log, Event("end", 0))
    /\ rpc' = "end"
    /\ UNCHANGED <<replay, hero_dead, ioVars, call, pbVars>>

\* record._end_turn
RecEndTurn ==
    /\ Recording /\ rpc = "turn"
    /\ Len(replay.moves) < MaxMoves
    /\ replay' = AppendMove(replay, TurnEndMove)
    /\ log' = Append(log, Event("end", 0))
    /\ rpc' = "end"
    /\ UNCHANGED <<hero_dead, ioVars, call, pbVars>>

\* _old_end_turn returns; the game loop goes on unless the game has ended.
RecEndTurnReturn ==
    /\ Recording /\ rpc = "end"
    /\ log' = Append(log, Event("ret", 0))
    /\ rpc' = (IF hero_dead THEN "over" ELSE "idle")
    /\ UNCHANGED <<replay, hero_dead, ioVars, call, pbVars>>

\* -------------------------------------------------------------- playback
\* The Replay that playback() closes over.
PB == IF pb = "load" THEN loaded ELSE replay

Drawn(ret, src, k) == [ret |-> ret, src |-> src, k |-> k]

Raised == [err |-> TRUE, random_index |-> 0, out |-> Drawn(Num(0), -2, -1)]

Returned(ri, out) == [err |-> FALSE, random_index |-> ri, out |-> out]

\* _generate_random_between that reads at the incremented cursor.
generate_random_between_off(r, mi, ri) ==
    IF Len(r.random) = 0
    THEN Returned(ri, Drawn(Num(0), -2, -1))
    ELSE IF mi = -1
         THEN IF InRange(r.random, ri + 1)
              THEN Returned(ri + 1, Drawn(Num(At(r.random, ri + 1)), -1, ri + 1))
              ELSE Raised
         ELSE IF InRange(r.moves, mi) /\ InRange(At(r.moves, mi).random_numbers, ri + 1)
              THEN Returned(ri + 1, Drawn(At(At(r.moves, mi).random_numbers, ri + 1), mi, ri + 1))
              ELSE Raised

\* _generate_random_between without the test for an empty pre-game list.
generate_random_between_strict(r, mi, ri) ==
    IF mi = -1
    THEN IF InRange(r.random, ri)
         THEN Returned(ri + 1, Drawn(Num(At(r.random, ri)), -1, ri))
         ELSE Raised
    ELSE IF InRange(r.moves, mi) /\ InRange(At(r.moves, mi).random_numbers, ri)
         THEN Returned(ri + 1, Drawn(At(At(r.moves, mi).random_numbers, ri), mi, ri))
         ELSE Raised

\* playback._generate_random_between: the value returned and the list entry it was
\* read from, the draw cursor afterwards, or that an IndexError was raised.
generate_random_between(r, mi, ri) ==
    IF Len(r.random) = 0
    THEN Returned(ri, Drawn(Num(0), -2, -1))
    ELSE IF mi = -1
         THEN IF InRange(r.random, ri)
              THEN Returned(ri + 1, Drawn(Num(At(r.random, ri)), -1, ri))
              ELSE Raised
         ELSE IF InRange(r.moves, mi) /\ InRange(At(r.moves, mi).random_numbers, ri)
              THEN Returned(ri + 1, Drawn(At(At(r.moves, mi).random_numbers, ri), mi, ri))
              ELSE Raised

\* The loop condition of do_turn without its test for a TurnEndMove.
DoTurnConditionNoEnd(r, mi, dead) ==
    /\ mi < Len(r.moves)
    /\ ~dead

\* The loop condition of ReplayAgent.do_turn.
DoTurnCondition(r, mi, dead) ==
    /\ mi < Len(r.moves)
    /\ ~dead
    /\ At(r.moves, mi).kind # "end"

\* playback(replay): the cursors of the closure; Game.__init__ runs next.
playback(which) ==
    /\ ppc = "none"
    /\ pb' = which
    /\ ppc' = "init"
    /\ move_index' = -1
    /\ k_index' = 0
    /\ random_index' = 0
    /\ hero_dead' = FALSE
    /\ turn_from' = -1
    /\ played' = <<>>
    /\ UNCHANGED <<recVars, ioVars, call, pos, got>>

\* A bounded-random call of the engine, answered by playback._generate_random_between.
PbGenerateRandomBetween ==
    /\ ppc \in {"init", "pregame", "start", "move", "end"}
    /\ LET res == generate_random_between(PB, move_index, random_index)
       IN IF res.err
          THEN /\ ppc' = "error"
               /\ random_index' = random_index + 1
               /\ got' = got
          ELSE /\ ppc' = ppc
               /\ random_index' = res.random_index
               /\ got' = Append(got, res.out)
    /\ pos' = pos + 1
    /\ UNCHANGED <<recVars, hero_dead, ioVars, call, pb, move_index, k_index, turnVars>>

\* Python's list indexing: a negative index counts from the end.
PyInRange(seq, i) == i >= -Len(seq) /\ i < Len(seq)

PyAt(seq, i) == IF i < 0 THEN seq[Len(seq) + i + 1] ELSE seq[i + 1]

\* The characters of the played-back game, by the reference that resolves to them.
Board == [p1 |-> "hero one", p2 |-> "hero two"]

\* ProxyCharacter.resolve(game)
resolve(ref) ==
    IF ref \in DOMAIN Board
    THEN [err |-> FALSE, character |-> Board[ref]]
    ELSE [err |-> TRUE, character |-> None]

\* Game.random_choice picks with a bounded draw: choice[draw(0, len(choice) - 1)].
old_random_choice(choice, n) ==
    IF InRange(choice, n)
    THEN [err |-> FALSE, character |-> At(choice, n)]
    ELSE [err |-> TRUE, character |-> None]

\* The entry playback.random_choice tests: replay._moves[move_index].random_numbers[random_index]
HasTested(r, mi, ri) ==
    PyInRange(r.moves, mi) /\ InRange(PyAt(r.moves, mi).random_numbers, ri)

Tested(r, mi, ri) == At(PyAt(r.moves, mi).random_numbers, ri)

\* playback.random_choice: what it returns or that it raised, the draw cursor
\* afterwards, whether _old_random_choice was called and what the bounded draw
\* made by it returned.
random_choice(r, mi, ri, choice) ==
    IF ~HasTested(r, mi, ri)
    THEN [err |-> TRUE, random_index |-> ri, drawn |-> <<>>, original |-> FALSE,
          result |-> None]
    ELSE IF Tested(r, mi, ri).proxy
    THEN LET res == resolve(Tested(r, mi, ri).ref)
         IN [err |-> res.err, random_index |-> IF res.err THEN ri ELSE ri + 1,
             drawn |-> <<>>, original |-> FALSE, result |-> res.character]
    ELSE LET draw == generate_random_between(r, mi, ri)
             res == IF draw.err \/ draw.out.ret.proxy
                    THEN [err |-> TRUE, character |-> None]
                    ELSE old_random_choice(choice, draw.out.ret.val)
         IN [err |-> res.err,
             random_index |-> IF draw.err THEN ri + 1 ELSE draw.random_index,
             drawn |-> IF draw.err THEN <<>> ELSE <<draw.out>>,
             original |-> TRUE, result |-> res.character]

\* A random-target request of the engine, answered by playback.random_choice.
PbRandomChoice(choice) ==
    /\ ppc \in {"pregame", "start", "move", "end"}
    /\ LET res == random_choice(PB, move_index, random_index, choice)
       IN /\ ppc' = (IF res.err THEN "error" ELSE ppc)
          /\ random_index' = res.random_index
          /\ got' = got \o res.drawn
          /\ call' = Call("random_choice", <<choice>>,
                          IF res.original THEN <<choice>> ELSE <<>>,
                          IF res.original THEN res.result ELSE None,
                          res.result, res.err)
    /\ pos' = pos + 1
    /\ UNCHANGED <<recVars, hero_dead, ioVars, pb, move_index, k_index, turnVars>>

\* playback.pre_game, up to the call of _old_pre_game
PbPreGame ==
    /\ ppc = "init"
    /\ ppc' = "pregame"
    /\ pos' = pos + 1
    /\ UNCHANGED <<recVars, hero_dead, ioVars, call, pb, move_index, random_index, k_index, got, turnVars>>

\* playback.pre_game, after _old_pre_game has returned
PbPreGameReturn ==
    /\ ppc = "pregame"
    /\ move_index' = 0
    /\ ppc' = "idle"
    /\ pos' = pos + 1
    /\ UNCHANGED <<recVars, hero_dead, ioVars, call, pb, random_index, k_index, got, turnVars>>

\* keep_arr[int(index)] = True on a list of n entries: Python counts a negative
\* index from the end and raises IndexError outside -n..n-1.
Settable(index, n) == index >= -n /\ index < n

Slot(index, n) == IF index < 0 THEN index + n ELSE index

\* do_card_check in which each agent reads the first keep selection.
do_card_check_first(r, k, n) ==
    IF InRange(r.keeps, k) /\ \A j \in 1..Len(At(r.keeps, 0)) : Settable(At(r.keeps, 0)[j], n)
    THEN [err |-> FALSE, k_index |-> k + 1,
          keep_arr |-> [i \in 1..n |->
                           \E j \in 1..Len(At(r.keeps, 0)) :
                               Slot(At(r.keeps, 0)[j], n) = i - 1]]
    ELSE [err |-> TRUE, k_index |-> k, keep_arr |-> <<>>]

\* ReplayAgent.do_card_check on a hand of n cards, with the keep cursor at k: the
\* vector returned and the cursor afterwards, or that IndexError was raised.
do_card_check(r, k, n) ==
    IF InRange(r.keeps, k) /\ \A j \in 1..Len(At(r.keeps, k)) : Settable(At(r.keeps, k)[j], n)
    THEN [err |-> FALSE, k_index |-> k + 1,
          keep_arr |-> [i \in 1..n |->
                           \E j \in 1..Len(At(r.keeps, k)) :
                               Slot(At(r.keeps, k)[j], n) = i - 1]]
    ELSE [err |-> TRUE, k_index |-> k, keep_arr |-> <<>>]

\* ReplayAgent.do_card_check, called by the engine on either agent
PbCardCheck(n) ==
    /\ ppc = "pregame"
    /\ LET res == do_card_check(PB, k_index, n)
       IN /\ k_index' = res.k_index
          /\ ppc' = (IF res.err THEN "error" ELSE ppc)
          /\ call' = Call("do_card_check", <<n>>, <<>>, None, res.keep_arr, res.err)
    /\ pos' = pos + 1
    /\ UNCHANGED <<recVars, hero_dead, ioVars, pb, move_index, random_index, got, turnVars>>

\* playback._start_turn, up to the call of _old_start_turn
PbStartTurn ==
    /\ ppc = "idle"
    /\ random_index' = 0
    /\ ppc' = "start"
    /\ pos' = pos + 1
    /\ UNCHANGED <<recVars, hero_dead, ioVars, call, pb, move_index, k_index, got, turnVars>>

\* playback._start_turn, after _old_start_turn has returned; the engine calls do_turn.
PbStartTurnReturn ==
    /\ ppc = "start"
    /\ move_index' = move_index + 1
    /\ ppc' = "turn"
    /\ turn_from' = move_index + 1
    /\ played' = <<>>
    /\ pos' = pos + 1
    /\ UNCHANGED <<recVars, hero_dead, ioVars, call, pb, random_index, k_index, got>>

\* ReplayAgent.do_turn: one pass of the loop, up to the call of play
PbDoTurnPlay ==
    /\ ppc = "turn"
    /\ DoTurnCondition(PB, move_index, hero_dead)
    /\ random_index' = 0
    /\ ppc' = "move"
    /\ played' = Append(played, move_index)
    /\ UNCHANGED turn_from
    /\ pos' = pos + 1
    /\ UNCHANGED <<recVars, hero_dead, ioVars, call, pb, move_index, k_index, got>>

\* ReplayAgent.do_turn: play has returned
PbMoveReturn ==
    /\ ppc = "move"
    /\ move_index' = move_index + 1
    /\ ppc' = "turn"
    /\ pos' = pos + 1
    /\ UNCHANGED <<recVars, hero_dead, ioVars, call, pb, random_index, k_index, got, turnVars>>

\* The acting hero dies while the played move resolves.
PbHeroDies ==
    /\ ppc = "move" /\ ~hero_dead
    /\ hero_dead' = TRUE
    /\ pos' = pos + 1
    /\ UNCHANGED <<recVars, ioVars, call, pb, ppc, move_index, random_index, k_index, got, turnVars>>

\* ReplayAgent.do_turn: the loop condition fails and do_turn returns
PbDoTurnReturn ==
    /\ ppc = "turn"
    /\ ~DoTurnCondition(PB, move_index, hero_dead)
    /\ ppc' = "after"
    /\ UNCHANGED <<recVars, hero_dead, ioVars, call, pb, move_index, random_index, k_index,
                   pos, got, turnVars>>

\* _end_turn that advances the move cursor before it calls _old_end_turn.
PbEndTurnEarly ==
    /\ ppc = "after"
    /\ random_index' = 0
    /\ move_index' = move_index + 1
    /\ ppc' = "end"
    /\ pos' = pos + 1
    /\ UNCHANGED <<recVars, hero_dead, ioVars, call, pb, k_index, got, turnVars>>

\* playback._end_turn, up to the call of _old_end_turn
PbEndTurn ==
    /\ ppc = "after"
    /\ random_index' = 0
    /\ ppc' = "end"
    /\ pos' = pos + 1
    /\ UNCHANGED <<recVars, hero_dead, ioVars, call, pb, move_index, k_index, got, turnVars>>

\* playback._end_turn, after _old_end_turn has returned
PbEndTurnReturn ==
    /\ ppc = "end"
    /\ move_index' = move_index + 1
    /\ ppc' = "idle"
    /\ pos' = pos + 1
    /\ UNCHANGED <<recVars, hero_dead, ioVars, call, pb, random_index, k_index, got, turnVars>>

\* The played-back engine makes the call the recorded engine made at this point.
Follow(ops) == pos < Len(log) /\ log[pos + 1].op \in ops

Quiescent == rpc \in {"new", "idle", "over"}

\* ------------------------------------- recording a random-target selection
\* isinstance(result, hearthbreaker.game_objects.Character)
IsCharacter(result) == \E ref \in DOMAIN Board : Board[ref] = result

\* ProxyCharacter(result): the reference that resolves to the character.
RefOf(character) == CHOOSE ref \in DOMAIN Board : Board[ref] = character

Chosen(err, r, result) == [err |-> err, replay |-> r, result |-> result]

\* record.random_choice: _old_random_choice picks with a bounded draw, which the
\* wrapper of _generate_random_between records; replay._moves[-1] raises
\* IndexError on an empty list, after that draw has been recorded.
record_random_choice(r, choice, n) ==
    LET drawn == record_random(r, n)
        res == old_random_choice(choice, n)
    IN IF res.err THEN Chosen(TRUE, r, None)
       ELSE IF ~IsCharacter(res.character) THEN Chosen(FALSE, drawn, res.character)
       ELSE IF Len(drawn.moves) = 0 THEN Chosen(TRUE, drawn, res.character)
       ELSE IF Len(Last(drawn.moves).random_numbers) = 0 THEN Chosen(TRUE, drawn, res.character)
       ELSE Chosen(FALSE,
                   [drawn EXCEPT !.moves[Len(drawn.moves)].random_numbers =
                       [@ EXCEPT ![Len(@)] = ProxyCharacter(RefOf(res.character))]],
                   res.character)

\* A random-target request of the recorded engine, answered by record.random_choice;
\* the engine draws the n-th entry of `choice`.
RecRandomChoice(choice, n) ==
    /\ Recording /\ rpc \in {"pregame", "start", "move", "end"}
    /\ Len(Draws(log)) < MaxDraws + 1
    /\ LET res == record_random_choice(replay, choice, n)
       IN /\ replay' = res.replay
          /\ call' = Call("random_choice", <<choice>>, <<choice>>, res.result,
                          IF res.err THEN None ELSE res.result, res.err)
          /\ rpc' = (IF res.err THEN "error" ELSE rpc)
          /\ log' = log \o <<Event("draw", n), Event("choice", res.result)>>
    /\ UNCHANGED <<hero_dead, ioVars, pbVars>>

\* ------------------------------------------------------ the compact format
\* A line `name(a,b,...)` is held as its directive name and the fields that
\* splitting the text between the parentheses at the commas gives: joining
\* no fields gives the empty text, and splitting the empty text gives one
\* empty field.
Line(name, args) == [name |-> name, args |-> args]

JoinSplit(fields) == IF fields = <<>> THEN <<"">> ELSE fields

\* str(n) and int(s) on the integers the model writes.
IntTokens == -1..9

IsInt(s) == \E n \in IntTokens : ToString(n) = s

IsDigit(s) == \E n \in 0..9 : ToString(n) = s

ParseInt(s) == CHOOSE n \in IntTokens : ToString(n) = s

DrawStr(d) == IF d.proxy THEN d.ref ELSE ToString(d.val)

MapSeq(Op(_), seq) == [i \in 1..Len(seq) |-> Op(seq[i])]

\* Replay.write, the deck lines: iterating over the None that __shorten_deck
\* returned raises TypeError.
DeckLine(deck) ==
    Line("deck", <<to_str(deck.character_class)>>
                     \o MapSeq(CardName, shorten_deck(deck.cards).cards))

DeckFails(deck) == shorten_deck(deck.cards).none

FailingDecks(r) == {i \in 1..Len(r.decks) : DeckFails(r.decks[i])}

\* found_random that looks at the pre-game list alone.
found_random_pregame(r) == ~(\A i \in 1..Len(r.random) : r.random[i] = 0)

\* Replay.write, lines 177-184
AllZero(random_numbers) ==
    \A i \in 1..Len(random_numbers) : random_numbers[i] = Num(0)

found_random(r) ==
    IF \A i \in 1..Len(r.random) : r.random[i] = 0
    THEN \E m \in 1..Len(r.moves) : ~AllZero(r.moves[m].random_numbers)
    ELSE TRUE

RandomLine(r) ==
    IF ~found_random(r)
    THEN Line("random", <<"">>)
    ELSE Line("random", JoinSplit(MapSeq(ToString, r.random)))

KeepLine(keep) == Line("keep", JoinSplit(MapSeq(ToString, keep)))

\* Move.to_output_string of each Move class
to_output_string(move) ==
    CASE move.kind = "start" -> Line("start", <<"">>)
      [] move.kind = "end" -> Line("end", <<"">>)
      [] move.kind = "concede" -> Line("concede", <<"">>)
      [] move.kind = "attack" -> Line("attack", <<move.attacker, move.target>>)
      [] move.kind = "power" ->
            Line("power", IF move.target = None THEN <<"">> ELSE <<move.target>>)
      [] move.kind = "play" ->
            IF move.index > -1
            THEN Line("summon", <<move.card, ToString(move.index)>>
                                    \o (IF move.target = None THEN <<>> ELSE <<move.target>>))
            ELSE Line("play", <<move.card>>
                                  \o (IF move.target = None THEN <<>> ELSE <<move.target>>))

MoveLines(move) ==
    <<to_output_string(move)>>
        \o (IF Len(move.random_numbers) > 0
            THEN <<Line("random", MapSeq(DrawStr, move.random_numbers))>>
            ELSE <<>>)

RECURSIVE Flatten(_)
Flatten(seqs) == IF seqs = <<>> THEN <<>> ELSE Head(seqs) \o Flatten(Tail(seqs))

\* Replay.write: the lines it emits when no deck fails.
WriteLines(r) ==
    MapSeq(DeckLine, r.decks)
        \o <<RandomLine(r)>>
        \o MapSeq(KeepLine, r.keeps)
        \o Flatten(MapSeq(MoveLines, r.moves))

\* Replay.write
write ==
    /\ iopc = "none" /\ ppc = "none" /\ Quiescent
    /\ IF FailingDecks(replay) = {}
       THEN file' = WriteLines(replay) /\ iopc' = "source"
       ELSE /\ file' = MapSeq(DeckLine, SubSeq(replay.decks, 1, Min(FailingDecks(replay)) - 1))
            /\ iopc' = "error"
    /\ UNCHANGED <<recVars, hero_dead, loaded, pbVars, call>>

\* The longest prefix of `args` that int() accepts.
IntPrefix(args) ==
    LET bad == {i \in 1..Len(args) : ~IsInt(args[i])}
    IN IF bad = {} THEN args ELSE SubSeq(args, 1, Min(bad) - 1)

ReadDraw(num) == IF IsDigit(num) THEN Num(ParseInt(num)) ELSE ProxyCharacter(num)

\* The play directive read as the summon directive is: card, index, target.
read_play_indexed(args) ==
    IF Len(args) > 1 /\ IsInt(At(args, 1))
    THEN PlayMove(At(args, 0), ParseInt(At(args, 1)),
                  IF Len(args) > 2 THEN At(args, 2) ELSE None)
    ELSE PlayMove(At(args, 0), -1, None)

\* Replay.read, the play directive: the card and, when given, the target.
read_play(args) ==
    PlayMove(At(args, 0), -1, IF Len(args) > 1 THEN At(args, 1) ELSE None)

\* The test for a directive too many that lets a third one in.
TooManyOff(list) == Len(list) > 2

\* Replay.read, lines 332 and 340: two decks or keeps have been read.
TooMany(list) == Len(list) > 1

\* Replay.read: the body of the loop, for one line.
read_line(r, line) ==
    LET args == line.args
        target(n) == IF Len(args) > n THEN At(args, n) ELSE None
    IN CASE line.name = "play" ->
              Ok(AppendMove(r, read_play(args)))
         [] line.name = "summon" ->
              IF Len(args) > 1 /\ IsInt(At(args, 1))
              THEN Ok(AppendMove(r, PlayMove(At(args, 0), ParseInt(At(args, 1)), target(2))))
              ELSE Err(r)
         [] line.name = "attack" ->
              IF Len(args) > 1
              THEN Ok(AppendMove(r, AttackMove(At(args, 0), At(args, 1))))
              ELSE Err(r)
         [] line.name = "power" ->
              IF Len(args) > 0 /\ At(args, 0) # ""
              THEN Ok(AppendMove(r, PowerMove(At(args, 0))))
              ELSE Ok(AppendMove(r, PowerMove(None)))
         [] line.name = "end" -> Ok(AppendMove(r, TurnEndMove))
         [] line.name = "start" -> Ok(AppendMove(r, TurnStartMove))
         [] line.name = "random" ->
              IF Len(r.moves) = 0
              THEN IF At(args, 0) # ""
                   THEN [err |-> IntPrefix(args) # args,
                         replay |-> [r EXCEPT !.random = @ \o MapSeq(ParseInt, IntPrefix(args))]]
                   ELSE Ok(r)
              ELSE Ok([r EXCEPT !.moves[Len(r.moves)].random_numbers =
                                    @ \o MapSeq(ReadDraw, args)])
         [] line.name = "deck" ->
              IF TooMany(r.decks) \/ Len(args) - 1 = 0
                 \/ \E i \in 2..Len(args) : card_lookup(args[i]) = NoCard
              THEN Err(r)
              ELSE Ok([r EXCEPT !.decks =
                          Append(@, Deck(Expand(Tail(args)), from_str(At(args, 0))))])
         [] line.name = "keep" ->
              IF TooMany(r.keeps) \/ IntPrefix(args) # args
              THEN Err(r)
              ELSE Ok([r EXCEPT !.keeps = Append(@, MapSeq(ParseInt, args))])
         [] line.name = "concede" -> Ok(AppendMove(r, ConcedeMove))
         [] OTHER -> Ok(r)

\* Replay.read: the loop over the lines; an exception ends it at that line.
RECURSIVE read_lines(_, _)
read_lines(r, lines) ==
    IF lines = <<>>
    THEN Ok(r)
    ELSE LET res == read_line(r, Head(lines))
         IN IF res.err THEN res ELSE read_lines(res.replay, Tail(lines))

DefaultKeeps == <<<<0, 1, 2>>, <<0, 1, 2, 3>>>>

\* The substitution made whenever fewer than two keep selections were read.
default_keeps_short(r) == IF Len(r.keeps) < 2 THEN [r EXCEPT !.keeps = DefaultKeeps] ELSE r

\* Replay.read, lines 348-349
default_keeps(r) == IF Len(r.keeps) = 0 THEN [r EXCEPT !.keeps = DefaultKeeps] ELSE r

\* Move.from_json(**js), for the records of the turn boundaries.
from_json(js) ==
    [(IF js.name = "start" THEN TurnStartMove ELSE TurnEndMove)
        EXCEPT !.random_numbers = MapSeq(Num, js.random)]

\* Replay.read_json, the decks: index % deck_size raises ZeroDivisionError on an
\* empty card list.
JsonDeckFails(deck) ==
    \/ Len(deck.cards) = 0
    \/ \E i \in 1..Len(deck.cards) : card_lookup(deck.cards[i]) = NoCard

JsonDeck(deck) == Deck(Expand(deck.cards), from_str(deck.class))

\* Replay.read_json on the parsed document jd
read_json_doc(r, jd) ==
    IF \E i \in 1..Len(jd.header.decks) : JsonDeckFails(jd.header.decks[i])
    THEN Err([r EXCEPT !.decks = <<>>])
    ELSE Ok(default_keeps([r EXCEPT !.decks = MapSeq(JsonDeck, jd.header.decks),
                                    !.random = jd.header.random,
                                    !.keeps = jd.header.keep,
                                    !.moves = MapSeq(from_json, jd.moves)]))

\* Replay.read_json into a fresh Replay
read_json ==
    /\ iopc = "document"
    /\ LET res == read_json_doc(NewReplay, file)
       IN /\ loaded' = res.replay
          /\ iopc' = (IF res.err THEN "error_json" ELSE "read_json")
    /\ UNCHANGED <<recVars, hero_dead, file, pbVars, call>>

\* Replay.read into a fresh Replay
read ==
    /\ iopc = "source"
    /\ LET res == read_lines(NewReplay, file)
       IN IF res.err
          THEN loaded' = res.replay /\ iopc' = "error"
          ELSE loaded' = default_keeps(res.replay) /\ iopc' = "read"
    /\ UNCHANGED <<recVars, hero_dead, file, pbVars, call>>

\* ---------------------------------------------------------- specification
\* The decks of game.players[0] and game.players[1] in the recorded game.
PlayerDeck0 == Deck(Tile(<<1>>), 1)

PlayerDeck1 == Deck(Tile(<<1, 2, 2>>), 2)

Init ==
    /\ replay = NewReplay
    /\ rpc = "unrecorded"
    /\ log = <<>>
    /\ hero_dead = FALSE
    /\ file = <<>>
    /\ iopc = "none"
    /\ loaded = NewReplay
    /\ pb = "none"
    /\ ppc = "none"
    /\ move_index = -1
    /\ random_index = 0
    /\ k_index = 0
    /\ pos = 0
    /\ got = <<>>
    /\ turn_from = -1
    /\ played = <<>>
    /\ call = NoCall

\* The opening hands the engine may report as kept.
Hands == UNION {[1..n -> BOOLEAN] : n \in {HandSize, HandSize + 1}}

KeepAll == {card_index \in Hands : \A i \in 1..Len(card_index) : card_index[i]}

\* The recorded game, apart from its mulligan.
RecGame ==
    \/ \E first_player \in 0..1 : record(first_player, PlayerDeck0, PlayerDeck1)
    \/ RecPreGame
    \/ RecPreGameReturn
    \/ \E result \in 0..MaxVal : RecGenerateRandomBetween(result)
    \/ RecStartTurn
    \/ RecStartTurnReturn
    \/ RecCardPlayed(0)
    \/ RecAttack("1", "2")
    \/ RecPower
    \/ RecMoveReturn
    \/ RecEndTurn
    \/ RecEndTurnReturn

\* A game is recorded, and then played back from the Replay it was recorded into.
Next ==
    \/ RecGame
    \/ RecHeroDies
    \/ \E card_index \in KeepAll : RecKeptCards(card_index)
    \/ (Quiescent /\ iopc = "none" /\ playback("rec"))
    \/ (Follow({"draw"}) /\ PbGenerateRandomBetween)
    \/ (Follow({"pre"}) /\ PbPreGame)
    \/ (Follow({"ret"}) /\ PbPreGameReturn)
    \/ (Follow({"keep"}) /\ PbCardCheck(log[pos + 1].val))
    \/ (Follow({"start"}) /\ PbStartTurn)
    \/ (Follow({"ret"}) /\ PbStartTurnReturn)
    \/ (Follow({"play", "attack", "power"}) /\ PbDoTurnPlay)
    \/ (Follow({"ret"}) /\ PbMoveReturn)
    \/ (Follow({"die"}) /\ PbHeroDies)
    \/ (Follow({"end"}) /\ PbDoTurnReturn)
    \/ (Follow({"end"}) /\ PbEndTurn)
    \/ (Follow({"ret"}) /\ PbEndTurnReturn)

Spec == Init /\ [][Next]_vars

\* A game is recorded, written in the compact format and read back.
NextIO ==
    \/ RecGame
    \/ \E card_index \in Hands : RecKeptCards(card_index)
    \/ write
    \/ read

SpecIO == Init /\ [][NextIO]_vars

\* A game is recorded and written in the compact format.
NextWrite ==
    \/ \E first_player \in 0..1 : record(first_player, PlayerDeck0, PlayerDeck1)
    \/ RecPreGame
    \/ \E card_index \in KeepAll : RecKeptCards(card_index)
    \/ RecPreGameReturn
    \/ \E result \in 0..MaxVal : RecGenerateRandomBetween(result)
    \/ RecStartTurn
    \/ RecStartTurnReturn
    \/ RecCardPlayed(0)
    \/ RecMoveReturn
    \/ RecEndTurn
    \/ RecEndTurnReturn
    \/ write

SpecWrite == Init /\ [][NextWrite]_vars

\* The mulligan of a game is recorded, and played back from that Replay.
NextKeep ==
    \/ \E first_player \in 0..1 : record(first_player, PlayerDeck0, PlayerDeck1)
    \/ RecPreGame
    \/ \E card_index \in Hands : RecKeptCards(card_index)
    \/ \E result \in 0..MaxVal : RecGenerateRandomBetween(result)
    \/ RecPreGameReturn
    \/ (Quiescent /\ iopc = "none" /\ playback("rec"))
    \/ (Follow({"pre"}) /\ PbPreGame)
    \/ (Follow({"keep"}) /\ PbCardCheck(log[pos + 1].val))
    \/ (Follow({"draw"}) /\ PbGenerateRandomBetween)
    \/ (Follow({"ret"}) /\ PbPreGameReturn)

SpecKeep == Init /\ [][NextKeep]_vars

\* A game is recorded, written in the compact format and read back; then a game
\* that makes the calls the recorded game made is played back from the Replay
\* it was recorded into, or from the Replay that was read.
NextOmit ==
    \/ record(0, PlayerDeck0, PlayerDeck1)
    \/ RecPreGame
    \/ \E card_index \in KeepAll : RecKeptCards(card_index)
    \/ RecPreGameReturn
    \/ \E result \in {0, MaxVal} : RecGenerateRandomBetween(result)
    \/ RecStartTurn
    \/ RecStartTurnReturn
    \/ RecCardPlayed(0)
    \/ RecMoveReturn
    \/ RecEndTurn
    \/ RecEndTurnReturn
    \/ write
    \/ read
    \/ \E which \in {"rec", "load"} : iopc = "read" /\ playback(which)
    \/ (Follow({"draw"}) /\ PbGenerateRandomBetween)
    \/ (Follow({"pre"}) /\ PbPreGame)
    \/ (Follow({"ret"}) /\ PbPreGameReturn)
    \/ (Follow({"keep"}) /\ PbCardCheck(log[pos + 1].val))
    \/ (Follow({"start"}) /\ PbStartTurn)
    \/ (Follow({"ret"}) /\ PbStartTurnReturn)
    \/ (Follow({"play"}) /\ PbDoTurnPlay)
    \/ (Follow({"ret"}) /\ PbMoveReturn)
    \/ (Follow({"end"}) /\ PbDoTurnReturn)
    \/ (Follow({"end"}) /\ PbEndTurn)
    \/ (Follow({"ret"}) /\ PbEndTurnReturn)

SpecOmit == Init /\ [][NextOmit]_vars

\* The characters on the board that a target choice is made among.
Targets == <<"p1", "p2">>

\* The options of a card that offers a choice.
Options == <<"a", "b">>

\* A game is recorded whose agents are asked for targets, indices and options.
NextAgent ==
    \/ record(0, PlayerDeck0, PlayerDeck1)
    \/ RecPreGame
    \/ RecPreGameReturn
    \/ (rpc = "move" /\ Last(log).op \in ActionKinds /\ RecGenerateRandomBetween(MaxVal))
    \/ RecStartTurn
    \/ RecStartTurnReturn
    \/ RecCardPlayed(0)
    \/ RecAttack("p1", "p2")
    \/ RecPower
    \/ RecMoveReturn
    \/ RecEndTurn
    \/ RecEndTurnReturn
    \/ \E card_index \in KeepAll : RecKeptCards(card_index)
    \/ \E t \in 1..Len(Targets) : RecChooseTarget(Targets, Targets[t])
    \/ RecFoundPowerTarget(Targets[1])
    \/ RecChooseIndex("Wisp", "one", 1)
    \/ \E unpacked \in BOOLEAN : RecChooseOption(Options, unpacked, 1)

SpecAgent == Init /\ [][NextAgent]_vars

\* The lists the engine selects from at random: characters, or cards.
Selections == {<<"hero one", "hero two">>, <<"Wisp", "Fireball">>}

\* A game is recorded whose engine makes bounded draws and random selections.
NextChoice ==
    \/ record(0, PlayerDeck0, PlayerDeck1)
    \/ RecPreGame
    \/ \E card_index \in KeepAll : RecKeptCards(card_index)
    \/ RecPreGameReturn
    \/ RecGenerateRandomBetween(MaxVal)
    \/ \E choice \in Selections, n \in 0..1 : RecRandomChoice(choice, n)
    \/ RecStartTurn
    \/ RecStartTurnReturn
    \/ RecCardPlayed(0)
    \/ RecPower
    \/ RecMoveReturn
    \/ RecEndTurn
    \/ RecEndTurnReturn

SpecChoice == Init /\ [][NextChoice]_vars

\* The decks handed to the deck shortener: patterns repeated to DeckSize cards,
\* the same with the last card replaced, and a deck of every smallest period.
Patterns == UNION {[1..n -> Cards] : n \in 1..MaxPattern}

DeckInputs ==
    {Tile(pattern) : pattern \in Patterns}
        \cup {[Tile(pattern) EXCEPT ![DeckSize] = card] : pattern \in Patterns, card \in Cards}
        \cup {Marker(period) : period \in 1..DeckSize}

\* record() on a game with any deck, then the compact writer and reader.
NextDeck ==
    \/ \E first_player \in 0..1, cards \in DeckInputs :
           record(first_player, Deck(cards, 1), PlayerDeck1)
    \/ write
    \/ read

SpecDeck == Init /\ [][NextDeck]_vars

\* The directives of a hand-written compact source.
SourceLines ==
    {Line("random", <<"">>), Line("random", <<"1", "0">>), Line("random", <<"p1", "1">>),
     Line("keep", <<"0">>), Line("start", <<"">>), Line("end", <<"">>),
     Line("play", <<"0">>), Line("deck", <<"MAGE", "Fireball">>)}

\* A source with a move written as play(card, index, target).
Scenario ==
    <<Line("deck", <<"MAGE", "Fireball">>), Line("random", <<"0">>),
      Line("keep", <<"0", "1", "2">>), Line("keep", <<"0", "1", "2", "3">>),
      Line("play", <<"Fireball", "0", "2">>), Line("end", <<"">>)>>

\* Sources with a directive too many, and a line after it.
ThreeDecks ==
    <<Line("deck", <<"MAGE", "Fireball">>), Line("deck", <<"HUNTER", "Wisp">>),
      Line("deck", <<"MAGE", "Wisp">>), Line("start", <<"">>)>>

ThreeKeeps ==
    <<Line("keep", <<"0">>), Line("start", <<"">>), Line("keep", <<"0", "1">>),
      Line("keep", <<"1">>), Line("end", <<"">>)>>

Sources ==
    UNION {[1..n -> SourceLines] : n \in 0..MaxLines}
        \cup {Scenario, ThreeDecks, ThreeKeeps}

\* The structured documents handed to read_json.
Document(decks, keep, random, moves) ==
    [header |-> [decks |-> decks, keep |-> keep, random |-> random], moves |-> moves]

Documents ==
    {Document(decks, keep, random, moves) :
        decks \in {<<>>, <<[cards |-> <<"Fireball", "Wisp">>, class |-> "MAGE"]>>},
        keep \in {<<>>, <<<<0>>>>, <<<<1>>, <<0, 1>>>>},
        random \in {<<>>, <<1>>},
        moves \in {<<>>, <<[name |-> "start", random |-> <<1>>],
                             [name |-> "end", random |-> <<>>]>>}}

InitFile ==
    /\ replay = NewReplay
    /\ rpc = "unrecorded"
    /\ log = <<>>
    /\ hero_dead = FALSE
    /\ \/ file \in Sources /\ iopc = "source"
       \/ file \in Documents /\ iopc = "document"
    /\ loaded = NewReplay
    /\ pb = "none"
    /\ ppc = "none"
    /\ move_index = -1
    /\ random_index = 0
    /\ k_index = 0
    /\ pos = 0
    /\ got = <<>>
    /\ turn_from = -1
    /\ played = <<>>
    /\ call = NoCall

Calls == pos < MaxCalls

\* A compact source is read and played back by an engine that calls as it likes.
NextFile ==
    \/ read
    \/ read_json
    \/ (iopc = "read" /\ playback("load"))
    \/ (Calls /\ PbGenerateRandomBetween)
    \/ (Calls /\ PbRandomChoice(<<"hero one", "hero two">>))
    \/ (Calls /\ PbPreGame)
    \/ (Calls /\ PbPreGameReturn)
    \/ \E n \in {HandSize, HandSize + 1} : Calls /\ PbCardCheck(n)
    \/ (Calls /\ PbStartTurn)
    \/ (Calls /\ PbStartTurnReturn)
    \/ (Calls /\ PbDoTurnPlay)
    \/ (Calls /\ PbMoveReturn)
    \/ (Calls /\ PbHeroDies)
    \/ PbDoTurnReturn
    \/ (Calls /\ PbEndTurn)
    \/ (Calls /\ PbEndTurnReturn)

SpecFile == InitFile /\ [][NextFile]_vars

\* ------------------------------------------------------------------ claims
Kinds(r) == [m \in 1..Len(r.moves) |-> r.moves[m].kind]

\* The calls of the recorded game that the played-back game has repeated so far.
Repeated == SubSeq(log, 1, pos)

\* How many of the first i - 1 recorded draws went where the i-th went.
Before(draws, i) == Cardinality({j \in 1..(i - 1) : draws[j].at = draws[i].at})

\* C1: played back from the Replay it was recorded into, a game that makes the
\* calls the recorded game made gets at every bounded-random call the value the
\* recorded game drew there, read from the list (the pre-game list, or the draw list
\* of the same move) and the place in it where it was recorded; no call reads
\* past the end of a list, and do_turn plays a move exactly when the recorded
\* game made one.
C1_Determinism ==
    pb = "rec" =>
        /\ ppc # "error"
        /\ Len(got) = Len(Draws(Repeated))
        /\ LET draws == Draws(log)
           IN \A i \in 1..Len(got) :
                  /\ got[i].ret = Num(draws[i].val)
                  /\ got[i].src = draws[i].at
                  /\ got[i].k = Before(draws, i)
        /\ (ppc = "turn" /\ pos < Len(log)) =>
               (DoTurnCondition(replay, move_index, hero_dead)
                    <=> log[pos + 1].op \in ActionKinds)

\* A whole recording has been played back: a draw after the coin flip came from
\* the pre-game list and a later one from the draw list of a move.
C1_Witness ==
    /\ pb = "rec" /\ pos = Len(log) /\ Len(got) = 3
    /\ got[2].src = -1
    /\ got[3].src >= 1 /\ got[3].ret = Num(1)

\* C5: a bounded-random draw of the recorded game is appended to the draw list of
\* the last move, or to the pre-game list if and only if there is no move yet; it
\* changes nothing else of the Replay.
C5_DrawGoesToLastMove ==
    [][(rpc # "unrecorded" /\ Len(Draws(log')) = Len(Draws(log)) + 1) =>
          IF Len(replay.moves) = 0
          THEN /\ replay'.random = Append(replay.random, Last(log').val)
               /\ replay'.moves = replay.moves
               /\ replay'.keeps = replay.keeps
          ELSE /\ replay'.random = replay.random
               /\ replay'.keeps = replay.keeps
               /\ Kinds(replay') = Kinds(replay)
               /\ \A m \in 1..(Len(replay.moves) - 1) : replay'.moves[m] = replay.moves[m]
               /\ Last(replay'.moves).random_numbers
                      = Append(Last(replay.moves).random_numbers, Num(Last(log').val))
      ]_vars

\* Two draws were made while the second move resolved, a 1 and then a 0.
C5_Witness ==
    /\ Len(replay.moves) = 2
    /\ replay.moves[2].random_numbers = <<Num(1), Num(0)>>
    /\ replay.moves[1].random_numbers = <<>>
    /\ Len(replay.random) = 1

Count(seq, S) == Cardinality({i \in 1..Len(seq) : seq[i] \in S})

Ops == [i \in 1..Len(log) |-> log[i].op]

\* The draws made since the turn-start or turn-end transition that is running began.
TransitionDraws ==
    LET from == CHOOSE i \in 1..Len(log) :
                    /\ log[i].op \in {"start", "end"}
                    /\ \A j \in (i + 1)..Len(log) : log[j].op \notin {"start", "end"}
    IN MapSeq(Num, [j \in 1..(Len(log) - from) |-> log[from + j].val])

\* C6: the recorded game has one TurnStartMove for each turn-start transition and
\* one TurnEndMove for each turn-end transition, and while a transition runs the
\* last move is its boundary move, holding exactly the draws made inside it.
C6_BoundaryMoveFirst ==
    /\ LET kinds == Kinds(replay)
           ops == Ops
       IN /\ Count(kinds, {"start"}) = Count(ops, {"start"})
          /\ Count(kinds, {"end"}) = Count(ops, {"end"})
    /\ rpc \in {"start", "end"} =>
           /\ Last(replay.moves).kind = rpc
           /\ Last(replay.moves).random_numbers = TransitionDraws

\* A turn-end transition is running and has drawn; so had the move before it.
C6_Witness ==
    /\ rpc = "end"
    /\ Len(Last(replay.moves).random_numbers) = 1
    /\ Len(replay.moves[Len(replay.moves) - 1].random_numbers) = 1

\* C7: the recorded moves are a concatenation of turns: the first move and every
\* move after a TurnEndMove is a TurnStartMove, a TurnStartMove stands nowhere
\* else, and every other move follows a move of its own turn.
C7_TurnPartition ==
    LET kinds == Kinds(replay)
    IN \A i \in 1..Len(kinds) :
           /\ kinds[i] \in ActionKinds \cup {"start", "end"}
           /\ kinds[i] = "start" => (i = 1 \/ kinds[i - 1] = "end")
           /\ kinds[i] # "start" => (i > 1 /\ kinds[i - 1] # "end")

\* A closed turn with a move in it.
C7_Witness ==
    /\ Len(replay.moves) = 3
    /\ Kinds(replay)[2] \in ActionKinds
    /\ Kinds(replay)[3] = "end"
    /\ rpc = "idle"

\* C10: in playback a turn-start or turn-end transition sets the draw cursor to
\* 0 and leaves the move cursor alone until the underlying transition has
\* returned, when it advances it by one; a draw made inside is read from the
\* boundary move at the cursor; the pre-game runs with the move cursor at -1 and
\* sets it to 0 when the underlying pre-game has returned.
C10_Transitions ==
    /\ [][/\ (ppc' \in {"start", "end"} /\ ppc' # ppc) =>
                 (random_index' = 0 /\ move_index' = move_index)
          /\ (ppc \in {"start", "end"} /\ ppc' = ppc) => move_index' = move_index
          /\ (ppc \in {"start", "end"} /\ ppc' = ppc /\ got' # got) =>
                 /\ Last(got').src = move_index
                 /\ At(PB.moves, move_index).kind = ppc
          /\ (ppc \in {"start", "end"} /\ ppc' \in {"turn", "idle"}) =>
                 move_index' = move_index + 1
          /\ (ppc = "pregame" /\ ppc' = "idle") => move_index' = 0
         ]_vars
    /\ [](ppc \in {"init", "pregame"} => move_index = -1)

\* A draw was read from the TurnEndMove while the turn-end transition ran.
C10_Witness ==
    /\ ppc = "end" /\ got # <<>>
    /\ Last(got).src = move_index /\ move_index = 1

\* C2: a recorded Replay that is written in the compact format and read back
\* into a fresh Replay comes back with its keep selections and its pre-game
\* random list.
C2_CompactRoundTrip ==
    (Len(replay.keeps) = 2 /\ iopc \in {"read", "error"}) =>
        /\ iopc = "read"
        /\ loaded.keeps = replay.keeps
        /\ loaded.random = replay.random

\* The pattern the deck compressor is said to return.
ClaimedPattern(cards) ==
    LET fits == {k \in 1..(PatternLimit - 1) :
                    \A i \in 0..(DeckSize - 1) : At(cards, i) = At(cards, i % k)}
    IN IF fits # {} THEN SubSeq(cards, 1, Min(fits)) ELSE cards

\* C4: for every deck the writer emits the deck compressor's pattern: the first
\* k cards for the smallest period k below PatternLimit, and all DeckSize cards
\* when there is no such period.
C4_CompressorTotal ==
    iopc \in {"source", "error"} =>
        /\ iopc = "source"
        /\ \A i \in 1..Len(replay.decks) :
               file[i] = Line("deck", <<to_str(replay.decks[i].character_class)>>
                                          \o MapSeq(CardName, ClaimedPattern(replay.decks[i].cards)))

\* C3: every deck, periodic or not, is written, and read back card by card.
C3_DeckRoundTrip ==
    /\ iopc # "error"
    /\ iopc = "read" => loaded.decks = replay.decks

\* The entry of the pre-game list or of the draw list of the move at the move
\* cursor that the draw cursor stands at, when there is one.
HasNextEntry ==
    IF move_index = -1
    THEN InRange(PB.random, random_index)
    ELSE InRange(PB.moves, move_index)
             /\ InRange(At(PB.moves, move_index).random_numbers, random_index)

NextEntry ==
    IF move_index = -1
    THEN Num(At(PB.random, random_index))
    ELSE At(At(PB.moves, move_index).random_numbers, random_index)

\* C8: in the playback of any Replay a bounded draw returns the next unconsumed
\* entry of the pre-game list (move cursor -1) or of the draw list of the move
\* at the move cursor, and consumes it.
C8_NextRecordedDraw ==
    [][(got' # got /\ HasNextEntry) =>
          /\ Last(got').ret = NextEntry
          /\ random_index' = random_index + 1
      ]_vars

KindAt(mi) == At(PB.moves, mi).kind

\* C9: do_turn plays a move only when the move cursor is inside the sequence,
\* the acting hero is alive and the move at the cursor is no TurnEndMove, with
\* the draw cursor reset to 0; it advances the move cursor by one when the move
\* has been played and not before; it returns, playing nothing more, only when
\* one of the three conditions fails; and the moves one call has played are the
\* consecutive moves from the cursor it was called with.
C9_DoTurn ==
    /\ [][/\ (ppc = "turn" /\ ppc' = "move") =>
                 /\ InRange(PB.moves, move_index) /\ ~hero_dead
                 /\ KindAt(move_index) # "end"
                 /\ random_index' = 0 /\ move_index' = move_index
          /\ (ppc = "move" /\ ppc' = "move") => move_index' = move_index
          /\ (ppc = "move" /\ ppc' = "turn") => move_index' = move_index + 1
          /\ (ppc = "turn" /\ ppc' = "after") =>
                 /\ \/ move_index >= Len(PB.moves)
                    \/ hero_dead
                    \/ KindAt(move_index) = "end"
                 /\ move_index' = move_index /\ random_index' = random_index
         ]_vars
    /\ [](ppc \in {"turn", "move", "after"} =>
             /\ \A i \in 1..Len(played) :
                    played[i] = turn_from + i - 1 /\ KindAt(played[i]) # "end"
             /\ move_index = turn_from + Len(played) - (IF ppc = "move" THEN 1 ELSE 0))

\* do_turn played a move, the hero died in it, and do_turn returned with a move
\* that is no TurnEndMove still at the cursor.
C9_Witness ==
    /\ ppc = "after" /\ hero_dead /\ Len(played) = 1
    /\ InRange(PB.moves, move_index) /\ KindAt(move_index) = "play"

\* A recording agent has answered a call.
AgentCalled == Len(log') = Len(log) + 1 /\ Last(log').op \in {"target", "index", "option"}

\* C12: a call of choose_index, choose_target or choose_option on a recording
\* agent is forwarded to the wrapped agent with the arguments it was made with,
\* the recorder raises no error, the wrapped agent's answer is returned, and the
\* answer has been recorded in the Replay when the call returns.
C12_RecordingAgent ==
    [][AgentCalled =>
          /\ ~call'.raised
          /\ call'.forwarded = call'.args
          /\ call'.returned = call'.answer
          /\ CASE call'.fn = "choose_target" -> replay'.next_target = call'.answer
               [] call'.fn = "choose_index" -> Last(replay'.moves).index = call'.answer
               [] call'.fn = "choose_option" -> replay' # replay
      ]_vars

\* C13: the pre-game random list starts with the coin flip, decks[0] is the deck
\* of the player the coin flip selected and decks[1] the deck of the other player.
C13_DecksByCoinFlip ==
    rpc # "unrecorded" =>
        LET first_player == log[1].val
            first == FirstActing(first_player)
            GameDecks == <<{Deck(cards, 1) : cards \in DeckInputs}, {PlayerDeck1}>>
        IN /\ Head(replay.random) = first_player
           /\ Len(replay.decks) = 2
           /\ replay.decks[1] \in GameDecks[first]
           /\ replay.decks[2] \in GameDecks[3 - first]

\* The coin flip selected player two, whose deck is stored first.
C13_Witness ==
    /\ rpc = "new" /\ replay.random = <<1>>
    /\ replay.decks[1] = PlayerDeck1
    /\ replay.decks[2].cards = Marker(2)

\* C18: recording a chosen board index keeps the length of the move sequence,
\* sets the index of the last move and changes nothing else: no earlier move, no
\* draw list, no keep selection, not the pre-game list, not the pending target.
C18_IndexFolding ==
    [][(Len(log') = Len(log) + 1 /\ Last(log').op = "index") =>
          /\ Len(replay'.moves) = Len(replay.moves)
          /\ Last(replay'.moves).index = Last(log').val
          /\ replay'.moves =
                 [replay.moves EXCEPT ![Len(replay.moves)].index = Last(log').val]
          /\ replay'.keeps = replay.keeps
          /\ replay'.random = replay.random
          /\ replay'.decks = replay.decks
          /\ replay'.next_target = replay.next_target
      ]_vars

\* An index was folded into a PlayMove that had drawn, with a target pending.
C18_Witness ==
    /\ call.fn = "choose_index" /\ ~call.raised
    /\ Len(replay.moves) = 2
    /\ Last(replay.moves).kind = "play" /\ Last(replay.moves).index = 1
    /\ Len(Last(replay.moves).random_numbers) = 1
    /\ replay.moves[1].index = -1
    /\ replay.next_target = "p1"

\* The target staged by the calls in `l`: the answer of the last target choice
\* made after the last play, power or attack move was appended.
RECURSIVE Pending(_)
Pending(l) ==
    IF l = <<>> THEN None
    ELSE IF Last(l).op \in ActionKinds THEN None
    ELSE IF Last(l).op \in {"target", "found"} THEN Last(l).val
    ELSE Pending(SubSeq(l, 1, Len(l) - 1))

\* C20: the pending target is the answer of the most recent target choice made
\* since a play, power or attack move was last appended, and none if there is no
\* such choice; a PlayMove or PowerMove has the target that was pending when it
\* was appended, and none is pending right after a move has been appended.
C20_PendingTarget ==
    rpc \notin {"unrecorded", "error"} =>
        /\ replay.next_target = Pending(log)
        /\ \A i \in 1..Len(log) :
               /\ log[i].op \in {"play", "power"} =>
                      replay.moves[log[i].at + 2].target = Pending(SubSeq(log, 1, i - 1))
               /\ log[i].op \in ActionKinds => Pending(SubSeq(log, 1, i)) = None

\* Two targets were chosen before a card was played; the second is attached.
C20_Witness ==
    /\ Len(replay.moves) = 2 /\ replay.moves[2].kind = "play"
    /\ replay.moves[2].target = "p2"
    /\ Len(Choices(log)) = 2 /\ Choices(log)[1].val = "p1"
    /\ replay.next_target = None

\* The indices that a keep selection holds.
Kept(keep) == {keep[j] : j \in 1..Len(keep)}

\* C14: the n-th do_card_check call of a playback, whichever agent gets it,
\* returns a vector of the hand's length that is TRUE exactly at the indices of
\* replay.keeps[n] and advances the keep cursor by one, so that the cursor counts
\* the calls made and no keep selection is used twice or skipped.
C14_SharedKeepCursor ==
    /\ [][(pb' = "rec" /\ pos' = pos + 1 /\ log[pos + 1].op = "keep") =>
              /\ ~call'.raised
              /\ k_index \in {0, 1}
              /\ k_index = Count([i \in 1..pos |-> log[i].op], {"keep"})
              /\ Len(call'.returned) = log[pos + 1].val
              /\ \A i \in 0..(log[pos + 1].val - 1) :
                     At(call'.returned, i) <=> i \in Kept(At(replay.keeps, k_index))
              /\ k_index' = k_index + 1
          ]_vars
    /\ [](pb = "rec" => k_index = Count([i \in 1..pos |-> log[i].op], {"keep"}))

\* The second call returned a vector for a hand of which the first card was put
\* back and the last kept, after a first call that kept nothing.
C14_Witness ==
    /\ pb = "rec" /\ k_index = 2 /\ call.fn = "do_card_check"
    /\ replay.keeps[1] = <<>>
    /\ ~call.returned[1] /\ call.returned[Len(call.returned)]

\* The engine has made a random-target request on the played-back game.
RandomChoiceCalled ==
    /\ pos' = pos + 1 /\ call'.fn = "random_choice"
    /\ call' # call \/ (got' = got /\ random_index' # random_index /\ ppc' = ppc)

\* C11: when the next unconsumed draw of the move at the move cursor is a
\* reference, a random-target request returns the character it resolves to,
\* consumes that one draw and does not call the original random choice; when it
\* is an integer the original random choice is called and consumes that integer
\* through the overridden bounded draw.
C11_RandomChoice ==
    [][(RandomChoiceCalled /\ InRange(PB.moves, move_index)
           /\ InRange(At(PB.moves, move_index).random_numbers, random_index)) =>
          LET next == At(At(PB.moves, move_index).random_numbers, random_index)
          IN IF next.proxy
             THEN next.ref \in DOMAIN Board =>
                  /\ ~call'.raised
                  /\ call'.returned = Board[next.ref]
                  /\ call'.forwarded = <<>>
                  /\ random_index' = random_index + 1
                  /\ got' = got
             ELSE /\ call'.forwarded = call'.args
                  /\ random_index' = random_index + 1
                  /\ got' = Append(got, Drawn(next, move_index, random_index))
      ]_vars

IsKeep(line) == line.name = "keep"

ParseKeep(line) == MapSeq(ParseInt, line.args)

\* The keep selections that a compact source holds.
KeepDirectives(lines) == MapSeq(ParseKeep, SelectSeq(lines, IsKeep))

\* C15: a Replay read from a compact source without a keep directive, or from a
\* structured document whose header keep list is empty, has the keeps
\* [[0,1,2],[0,1,2,3]]; read from a source with a keep selection it has exactly
\* the selections of the source.
C15_DefaultKeeps ==
    /\ iopc = "read" =>
           loaded.keeps = (IF KeepDirectives(file) = <<>>
                           THEN <<<<0, 1, 2>>, <<0, 1, 2, 3>>>>
                           ELSE KeepDirectives(file))
    /\ iopc = "read_json" =>
           loaded.keeps = (IF file.header.keep = <<>>
                           THEN <<<<0, 1, 2>>, <<0, 1, 2, 3>>>>
                           ELSE file.header.keep)

\* A compact source of two moves and no keep directive was read.
C15_Witness ==
    /\ iopc = "read" /\ ppc = "none"
    /\ Len(loaded.moves) = 2 /\ KeepDirectives(file) = <<>>
    /\ loaded.keeps = <<<<0, 1, 2>>, <<0, 1, 2, 3>>>>

\* The positions in `lines` of the directives called `name`.
Directives(lines, name) == {i \in 1..Len(lines) : lines[i].name = name}

\* The line of the third deck directive or of the third keep directive.
ThirdLines(lines) ==
    {i \in 1..Len(lines) :
        \E name \in {"deck", "keep"} :
            /\ lines[i].name = name
            /\ Cardinality({j \in Directives(lines, name) : j < i}) = 2}

\* C16: reading a compact source raises an error at the third deck directive
\* and at the third keep directive: the Replay is left as the lines before that
\* line made it, no later line is processed, and it never holds more than two
\* decks or more than two keep selections.
C16_Cardinality ==
    iopc \in {"read", "error"} =>
        /\ Len(loaded.decks) <= 2 /\ Len(loaded.keeps) <= 2
        /\ (ThirdLines(file) # {}
                /\ ~read_lines(NewReplay, SubSeq(file, 1, Min(ThirdLines(file)) - 1)).err) =>
               /\ iopc = "error"
               /\ loaded = read_lines(NewReplay, SubSeq(file, 1, Min(ThirdLines(file)) - 1)).replay
               /\ Len(loaded.moves) =
                      Cardinality({i \in 1..(Min(ThirdLines(file)) - 1) :
                                      file[i].name \in {"start", "end", "play"}})

\* The third keep directive of a source raised; a move stands before it and
\* a line after it.
C16_Witness ==
    /\ iopc = "error" /\ file = ThreeKeeps
    /\ loaded.keeps = <<<<0>>, <<0, 1>>>> /\ Len(loaded.moves) = 1

\* C17, as the claim states it: the six lines parse to one MAGE deck of 30
\* Fireballs, the pre-game list [0], the keeps [[0,1,2],[0,1,2,3]] and the moves
\* PlayMove(Fireball, board index 0, target 2), TurnEndMove.
C17_ScenarioAsClaimed ==
    (iopc \in {"read", "error"} /\ file = Scenario) =>
        /\ iopc = "read"
        /\ loaded.decks = <<Deck(Tile(<<card_lookup("Fireball")>>), from_str("MAGE"))>>
        /\ loaded.random = <<0>>
        /\ loaded.keeps = <<<<0, 1, 2>>, <<0, 1, 2, 3>>>>
        /\ loaded.moves = <<PlayMove("Fireball", 0, "2"), TurnEndMove>>

\* C17, amended: the play directive takes the card and the target, so that the
\* PlayMove has the card Fireball, no board index and the target 0; the rest is
\* as claimed.
C17_Scenario ==
    (iopc \in {"read", "error"} /\ file = Scenario) =>
        /\ iopc = "read"
        /\ loaded.decks = <<Deck(Tile(<<card_lookup("Fireball")>>), from_str("MAGE"))>>
        /\ loaded.random = <<0>>
        /\ loaded.keeps = <<<<0, 1, 2>>, <<0, 1, 2, 3>>>>
        /\ Len(loaded.moves) = 2
        /\ loaded.moves[1].kind = "play" /\ loaded.moves[1].card = "Fireball"
        /\ loaded.moves[1].index = -1 /\ loaded.moves[1].target = "0"
        /\ loaded.moves[1].random_numbers = <<>>
        /\ loaded.moves[2] = TurnEndMove

\* The six lines have been read.
C17_Witness ==
    /\ iopc = "read" /\ ppc = "none" /\ file = Scenario
    /\ Len(loaded.moves) = 2 /\ Len(loaded.decks) = 1

IsPreGame(e) == e.op = "draw" /\ e.at = -1

Val(e) == e.val

\* C19: the writer emits the pre-game line as random() if and only if every
\* draw of the recorded game is 0, the pre-game draws and the draws of every
\* move; in every other case the line lists all pre-game draws in order, the
\* zeros too.
C19_PreGameLine ==
    iopc = "source" =>
        LET line == file[Len(replay.decks) + 1]
            all == MapSeq(Val, Draws(log))
            pre == MapSeq(Val, SelectSeq(log, IsPreGame))
        IN /\ line.name = "random"
           /\ IF \A i \in 1..Len(all) : all[i] = 0
              THEN line.args = <<"">>
              ELSE line.args = MapSeq(ToString, pre)

\* Both pre-game draws were 0 and a move drew 1: the line is random(0,0).
C19_Witness ==
    /\ iopc = "source" /\ replay.random = <<0, 0>>
    /\ Len(replay.moves) = 3 /\ replay.moves[2].random_numbers = <<Num(1)>>
    /\ file[3] = Line("random", <<"0", "0">>)

\* The engine selected a character at random in the recorded game.
RandomTargetSelected ==
    /\ call'.fn = "random_choice" /\ Len(log') = Len(log) + 2
    /\ IsCharacter(call'.answer)

\* The bounded-random calls made while the m-th move was the last one (m = 0:
\* before any move).
CallsDuring(m) == {i \in 1..Len(log) : IsDraw(log[i]) /\ log[i].at = m - 1}

\* C22: a random selection of the recorded game that yields a character is
\* answered with that character without an error, and leaves the bounded draw it
\* made as one entry, a reference to the selected character, at the end of the
\* draw list of the last move, nothing else of the Replay changed; before any
\* move it leaves one more entry in the pre-game list; so every move has as many
\* recorded draws as bounded-random calls were made while it resolved, and the
\* pre-game list as many as were made before the first move.
C22_RandomTargetSelection ==
    /\ [][RandomTargetSelected =>
              /\ ~call'.raised
              /\ call'.returned = call'.answer
              /\ replay'.decks = replay.decks /\ replay'.keeps = replay.keeps
              /\ IF Len(replay.moves) > 0
                 THEN /\ replay'.random = replay.random
                      /\ replay'.moves =
                             [replay.moves EXCEPT ![Len(replay.moves)].random_numbers =
                                 Append(@, ProxyCharacter(RefOf(call'.answer)))]
                 ELSE /\ Len(replay'.random) = Len(replay.random) + 1
                      /\ replay'.moves = replay.moves
         ]_vars
    /\ [](rpc # "unrecorded" =>
             /\ Len(replay.random) = Cardinality(CallsDuring(0))
             /\ \A m \in 1..Len(replay.moves) :
                    Len(replay.moves[m].random_numbers) = Cardinality(CallsDuring(m)))

\* Every draw of the recorded game was 0.
AllDrawsZero == \A i \in 1..Len(log) : IsDraw(log[i]) => log[i].val = 0

\* C21: a recording whose draws are all 0 is read back from the compact format
\* with an empty pre-game list; when the Replay read has an empty pre-game
\* list, a game that makes the calls the recorded game made is handed at every
\* bounded-random call the value the recorded game drew there, and no call
\* raises, played back from the Replay read as from the recorded Replay: the
\* two playbacks hand the same values.
C21_OmittedDrawsSafe ==
    /\ (iopc = "read" /\ AllDrawsZero) => loaded.random = <<>>
    /\ (iopc = "read" /\ loaded.random = <<>> /\ pb \in {"rec", "load"}) =>
           /\ ppc # "error"
           /\ Len(got) = Len(Draws(Repeated))
           /\ LET draws == Draws(log)
              IN \A i \in 1..Len(got) : got[i].ret = Num(draws[i].val)

\* A recording of the coin flip, a pre-game draw and a draw of a move, all 0, has
\* been played back to its end from the Replay read, whose pre-game list is empty.
C21_Witness ==
    /\ iopc = "read" /\ pb = "load" /\ pos = Len(log)
    /\ replay.random = <<0, 0>> /\ loaded.random = <<>>
    /\ \E m \in 1..Len(loaded.moves) : loaded.moves[m].random_numbers = <<Num(0)>>
    /\ Len(got) = 3
====
